---------------------------- MODULE Spec2Model ----------------------------
(***************************************************************************)
(* A model of sync.py, the static-site build script: create_blog_post,     *)
(* update_index_html, generate_projects_html, generate_blog_html,          *)
(* extract_post_details and main.                                          *)
(*                                                                         *)
(* Text is a sequence of tokens.  A token is one character, or one whole   *)
(* marker comment / piece of fixed markup (these begin with "<" and hold   *)
(* no second "<", so two occurrences never overlap and a token stands for  *)
(* the characters it is made of).                                          *)
(***************************************************************************)
EXTENDS Naturals, Integers, Sequences, FiniteSets, TLC

VARIABLES
    pc,               \* main's position: "idle", "step1", "step2", "step3", "done", "aborted"
    runs,             \* number of runs of main started; the time of the current run
    edits,            \* number of changes made to the input files between runs
    todo,             \* step 1: the names of os.listdir(source_dir) not yet visited
    srcDir,           \* whether blogs_md/ is a directory
    sources,          \* blogs_md/: file name -> the file's state and Markdown content
    template,         \* template.html: Absent, Unreadable, or which template it is
    outDir,           \* whether blog/ is a directory
    outWritable,      \* whether files can be created in blog/
    pages,            \* blog/: file name -> the rendered page there, if one exists
    projects,         \* projects.json: its kind and decoded JSON value
    index,            \* index.html: its content, or NoFile
    indexWritable,    \* whether index.html can be opened for writing
    calls,            \* the update_index_html calls of the current run: <<placeholder, fragment>>
    content_to_inject,\* update_index_html's first argument   (injector harness)
    placeholder,      \* update_index_html's second argument  (injector harness)
    hist,             \* index.html after each call            (injector harness)
    outcome,          \* "none", "returned", "raised", "success"
    projects_html,    \* generate_projects_html's result
    page,             \* the page extract_post_details reads
    details,          \* extract_post_details' result
    listing,          \* os.listdir(blog_dir) with each file's state
    tz,               \* the local timezone of the process
    posts_html        \* generate_blog_html's result

vars == <<pc, runs, edits, todo, srcDir, sources, template, outDir, outWritable, pages,
          projects, index, indexWritable, calls, content_to_inject, placeholder, hist,
          outcome, projects_html, page, details, listing, tz, posts_html>>

pipelineVars == <<pc, runs, edits, todo, srcDir, sources, template, outDir, outWritable,
                  pages, indexWritable, calls>>
injectVars == <<content_to_inject, placeholder, hist, outcome>>
projectVars == <<projects_html>>
extractVars == <<page, details>>
blogVars == <<listing, tz, posts_html>>

Absent == "ABSENT"
Unreadable == "UNREADABLE"
Invalid == "INVALID"
None == "NONE"
\* A missing index.html and a raised re.error, as texts no file can hold.
NoFile == <<"NOFILE">>
RaisedError == <<"RAISED">>

---------------------------------------------------------------------------
(* Sequence helpers *)

RECURSIVE Flatten(_)
Flatten(ss) == IF ss = <<>> THEN <<>> ELSE Head(ss) \o Flatten(Tail(ss))

RECURSIVE SeqsUpTo(_, _)
SeqsUpTo(S, n) ==
    IF n = 0 THEN {<<>>}
    ELSE LET prev == SeqsUpTo(S, n - 1)
         IN  prev \cup {Append(s, c) : s \in {t \in prev : Len(t) = n - 1}, c \in S}

Count(s, c) == Cardinality({i \in 1..Len(s) : s[i] = c})

IsInfix(a, b) ==
    \E i \in 0..(Len(b) - Len(a)) : SubSeq(b, i + 1, i + Len(a)) = a

---------------------------------------------------------------------------
(* update_index_html: the markers, the regular expression, the template *)

PlaceholderStart(p) == "<!-- " \o p \o "_START -->"
PlaceholderEnd(p) == "<!-- " \o p \o "_END -->"
Indentation == "                        "
Newline == "\n"
Backslash == "\\"

Placeholders == {"PROJECTS_PLACEHOLDER", "BLOG_POSTS_PLACEHOLDER"}
MarkerTokens ==
    {PlaceholderStart(p) : p \in Placeholders} \cup {PlaceholderEnd(p) : p \in Placeholders}

\* The last character of a token: what group 1 of (.|\n)*? holds after the
\* region's last token was consumed.
LastChar(tok) == IF tok \in MarkerTokens THEN ">" ELSE tok

\* The replacement string of re.sub, line 66.
Replacement(p, frag) ==
    <<PlaceholderStart(p), Newline>> \o frag \o <<Newline, Indentation, PlaceholderEnd(p)>>

\* sre's parse_template classes: a decimal digit, an ASCII letter that is no
\* known escape, and everything else.
IsDigit(c) == c \in {"1"}
IsUnknownLetter(c) == c \in {"p"}

\* Whether re.sub accepts the replacement string: "\\" + digit(s) must name
\* group 1 (the pattern's only group) or be a three-digit octal escape,
\* "\\" + an unknown ASCII letter is a bad escape.
RECURSIVE TemplateOK(_)
TemplateOK(t) ==
    IF t = <<>> THEN TRUE
    ELSE IF Head(t) # Backslash \/ Len(t) = 1 THEN TemplateOK(Tail(t))
    ELSE LET c == t[2] IN
         IF c = Backslash THEN TemplateOK(SubSeq(t, 3, Len(t)))
         ELSE IF IsDigit(c) THEN
              IF Len(t) >= 3 /\ IsDigit(t[3])
              THEN Len(t) >= 4 /\ IsDigit(t[4]) /\ TemplateOK(SubSeq(t, 5, Len(t)))
              ELSE TemplateOK(SubSeq(t, 3, Len(t)))
         ELSE IF IsUnknownLetter(c) THEN FALSE
         ELSE TemplateOK(Tail(t))

\* The text a match is replaced by: the template with its escapes expanded,
\* g1 being group 1 of the match (<<>> when the group did not take part).
RECURSIVE Expand(_, _)
Expand(t, g1) ==
    IF t = <<>> THEN <<>>
    ELSE IF Head(t) # Backslash \/ Len(t) = 1 THEN <<Head(t)>> \o Expand(Tail(t), g1)
    ELSE LET c == t[2] IN
         IF c = Backslash THEN <<Backslash>> \o Expand(SubSeq(t, 3, Len(t)), g1)
         ELSE IF IsDigit(c) THEN
              IF Len(t) >= 4 /\ IsDigit(t[3]) /\ IsDigit(t[4])
              THEN <<"I">> \o Expand(SubSeq(t, 5, Len(t)), g1)   \* "\111" is chr(0o111)
              ELSE g1 \o Expand(SubSeq(t, 3, Len(t)), g1)
         ELSE <<Backslash>> \o Expand(Tail(t), g1)

\* The least index >= from at which tok occurs in s, or 0.
FirstAt(s, tok, from) ==
    LET hits == {i \in from..Len(s) : s[i] = tok}
    IN  IF hits = {} THEN 0 ELSE CHOOSE i \in hits : \A j \in hits : i <= j

\* A matcher that takes the end of the text for a missing end marker.
MatchEndOrEof(s, p, i) ==
    IF FirstAt(s, PlaceholderEnd(p), i + 1) = 0 THEN Len(s) + 1
    ELSE FirstAt(s, PlaceholderEnd(p), i + 1)

\* The end of the non-greedy match that starts at the start marker at i: the
\* first end marker after it, or 0.
MatchEnd(s, p, i) == FirstAt(s, PlaceholderEnd(p), i + 1)

\* re.sub(pattern, template, s): every non-overlapping match, left to right.
RECURSIVE SubFrom(_, _, _, _)
SubFrom(s, p, t, from) ==
    LET i == FirstAt(s, PlaceholderStart(p), from)
        j == IF i = 0 THEN 0 ELSE MatchEnd(s, p, i)
    IN  IF i = 0 \/ j = 0 THEN SubSeq(s, from, Len(s))
        ELSE SubSeq(s, from, i - 1)
             \o Expand(t, IF j = i + 1 THEN <<>> ELSE <<LastChar(s[j - 1])>>)
             \o SubFrom(s, p, t, j + 1)

\* updated_content of lines 64-68, or RaisedError when re.sub raises re.error.
UpdatedContent(index_content, p, frag) ==
    IF ~TemplateOK(Replacement(p, frag)) THEN RaisedError
    ELSE SubFrom(index_content, p, Replacement(p, frag), 1)

\* update_index_html as a function of the file: the file afterwards and how
\* the call ended.  A missing file returns early; re.error and a failed
\* open(.., 'w') propagate to the caller with the file untouched.
UpdateIndexHtml(file, writable, p, frag) ==
    IF file = NoFile THEN [file |-> file, outcome |-> "returned"]
    ELSE IF UpdatedContent(file, p, frag) = RaisedError THEN [file |-> file, outcome |-> "raised"]
    ELSE IF ~writable THEN [file |-> file, outcome |-> "raised"]
    ELSE [file |-> UpdatedContent(file, p, frag), outcome |-> "success"]

---------------------------------------------------------------------------
(* Values the variables of a part that takes no part in a specification hold *)

PipelineOff ==
    /\ pc = "off" /\ runs = 0 /\ edits = 0 /\ todo = {} /\ srcDir = FALSE
    /\ sources = <<>> /\ template = Absent /\ outDir = FALSE /\ outWritable = TRUE
    /\ pages = <<>> /\ indexWritable = TRUE /\ calls = <<>>
InjectOff ==
    content_to_inject = <<>> /\ placeholder = None /\ hist = <<>> /\ outcome = "none"
ProjectOff == projects_html = <<>>
NoProjects == [kind |-> Absent, value |-> <<>>]
ExtractOff == page = <<>> /\ details = <<>>
BlogOff == listing = <<>> /\ tz = "UTC" /\ posts_html = <<>>

---------------------------------------------------------------------------
(* SpecInject: update_index_html called, and called again, on one index file *)

MaxIndexLen == 4
MaxFragLen == 2
MaxCalls == 2

IndexAlphabet ==
    {".", PlaceholderStart("PROJECTS_PLACEHOLDER"), PlaceholderEnd("PROJECTS_PLACEHOLDER")}
FragAlphabet == {".", "p", "1", Backslash, PlaceholderEnd("PROJECTS_PLACEHOLDER")}

InitInject ==
    /\ index \in {NoFile} \cup SeqsUpTo(IndexAlphabet, MaxIndexLen)
    /\ content_to_inject \in SeqsUpTo(FragAlphabet, MaxFragLen)
    /\ placeholder = "PROJECTS_PLACEHOLDER"
    /\ hist = <<[file |-> index, outcome |-> "none"]>>
    /\ outcome = "none"
    /\ projects = NoProjects
    /\ PipelineOff /\ ProjectOff /\ ExtractOff /\ BlogOff

\* One call update_index_html(content_to_inject, placeholder, 'index.html').
Inject ==
    /\ Len(hist) <= MaxCalls
    /\ outcome # "raised"
    /\ LET r == UpdateIndexHtml(index, indexWritable, placeholder, content_to_inject)
       IN  /\ index' = r.file
           /\ outcome' = r.outcome
           /\ hist' = Append(hist, r)
    /\ UNCHANGED <<content_to_inject, placeholder, projects>>
    /\ UNCHANGED <<pipelineVars, projectVars, extractVars, blogVars>>

NextInject == Inject
SpecInject == InitInject /\ [][NextInject]_vars

\* The file as it was before the first call, and after the first and second.
Before == hist[1].file
After(n) == hist[n + 1].file
Called(n) == Len(hist) >= n + 1 /\ Before # NoFile

StartIn(s) == {i \in 1..Len(s) : s[i] = PlaceholderStart(placeholder)}
EndIn(s) == {j \in 1..Len(s) : s[j] = PlaceholderEnd(placeholder)}
\* Some start marker is followed, later in the text, by an end marker.
HasStartThenEnd(s) == \E i \in StartIn(s) : \E j \in EndIn(s) : i < j
\* Each marker exactly once, the start marker first.
WellFormedPair(s) ==
    Cardinality(StartIn(s)) = 1 /\ Cardinality(EndIn(s)) = 1 /\ HasStartThenEnd(s)

\* C2: with a well-formed marker pair and a non-empty fragment, the call
\* leaves the text before the start marker, then start marker, newline, the
\* fragment verbatim, newline, the indentation, end marker, then the text
\* after the end marker.
C2_FragmentInjectedVerbatim ==
    (Called(1) /\ WellFormedPair(Before) /\ content_to_inject # <<>>) =>
        LET i == CHOOSE k \in StartIn(Before) : TRUE
            j == CHOOSE k \in EndIn(Before) : TRUE
        IN  After(1) = SubSeq(Before, 1, i - 1)
                       \o <<PlaceholderStart(placeholder), Newline>>
                       \o content_to_inject
                       \o <<Newline, Indentation, PlaceholderEnd(placeholder)>>
                       \o SubSeq(Before, j + 1, Len(Before))

\* C3: with no start marker followed by an end marker, the call writes the
\* file back as it was read and reports success.
C3_NoPairRewritesUnchangedWithSuccess ==
    (Called(1) /\ ~HasStartThenEnd(Before)) =>
        (After(1) = Before /\ hist[2].outcome = "success")

\* C4 as stated: unless each marker occurs exactly once, start before end,
\* the call changes nothing.
C4_NoOpUnlessMarkersUnique ==
    (Called(1) /\ ~WellFormedPair(Before)) => After(1) = Before

\* C4 as amended: the call changes the file only when some start marker is
\* followed later by an end marker (repeated markers do not prevent it).
C4_ChangeOnlyWithStartThenEnd ==
    (Called(1) /\ ~HasStartThenEnd(Before)) => After(1) = Before

\* C4's case: both markers present, but only in end-then-start order, and the
\* call has run to its end.
C4_Witness ==
    /\ Called(1) /\ hist[2].outcome = "success"
    /\ StartIn(Before) # {} /\ EndIn(Before) # {} /\ ~HasStartThenEnd(Before)

\* C10: a second call with the same fragment and placeholder leaves the file
\* as the first call left it.
C10_InjectionIdempotent ==
    Called(2) => After(2) = After(1)

---------------------------------------------------------------------------
(* generate_projects_html *)

\* projects.json is [kind, value]: kind Absent (no file), Invalid (not JSON),
\* "array" (value: the items), "object" (a non-empty JSON object) or "number".
\* An item is [isObject, title, image, description, tags, sourceCodeUrl,
\* liveDemoUrl]; a missing key holds Absent (<<Absent>> for description and
\* tags, whose values are the description's characters and the list of tags),
\* a JSON null holds JsonNull.
JsonNull == "JSON_NULL"

\* project.get(key) and project.get(key, default)
Get(project, key) == IF project[key] = Absent THEN JsonNull ELSE project[key]
GetOr(project, key, default) == IF project[key] = Absent THEN default ELSE project[key]

\* Python's truth value of a decoded JSON string or null.
Truthy(v) == v \notin {JsonNull, ""}

CardOpen == "<div class=\"project-card\">"
CardClose == "</div>"
TagBadge == "<span class=\"bg-gray-700\">"
SourceCodeLink == "<span>Source Code</span></a>"
LiveDemoLink == "<span>Live Demo</span></a>"

\* project.get('description', '')
DescriptionOf(project) ==
    IF project["description"] = <<Absent>> THEN <<>> ELSE project["description"]

\* project.get("tags", []): the tags key holds a list, <<Absent>> when missing.
TagsOf(project) == IF project["tags"] = <<Absent>> THEN <<>> ELSE project["tags"]

\* tags_html of line 89
TagsHtml(project) ==
    Flatten([i \in 1..Len(TagsOf(project)) |-> <<TagBadge, TagsOf(project)[i], "</span>">>])

\* A button rendered whenever the key is there, whatever its value.
LiveDemoButtonIfKey(project) ==
    IF project["liveDemoUrl"] # Absent
    THEN <<"<a href=", project["liveDemoUrl"], LiveDemoLink>> ELSE <<>>

\* live_demo_button of lines 91-93
LiveDemoButton(project) ==
    IF Truthy(Get(project, "liveDemoUrl"))
    THEN <<"<a href=", project["liveDemoUrl"], LiveDemoLink>> ELSE <<>>

\* The block lines 95-107 add for one record.
ProjectBlock(project) ==
    <<Newline, CardOpen,
      "<img src=", GetOr(project, "image", "https://placehold.co/600x300/1f2937/bfff00?text=Project"),
      "alt=", GetOr(project, "title", "Project"),
      "<h3>", GetOr(project, "title", "Untitled Project"), "</h3>",
      "<p>">>
    \o DescriptionOf(project) \o <<"</p>">>
    \o TagsHtml(project)
    \o <<"<a href=", GetOr(project, "sourceCodeUrl", "#"), SourceCodeLink>>
    \o LiveDemoButton(project)
    \o <<CardClose>>

\* generate_projects_html: "" for a missing or undecodable file; iterating a
\* number, or calling .get on something that is no object (an array item, or
\* a key of a JSON object), raises.
GenerateProjectsHtml(file) ==
    IF file.kind \in {Absent, Invalid} THEN [outcome |-> "returned", html |-> <<>>]
    ELSE IF file.kind # "array" THEN [outcome |-> "raised", html |-> <<>>]
    ELSE IF \E i \in 1..Len(file.value) : ~file.value[i].isObject
         THEN [outcome |-> "raised", html |-> <<>>]
    ELSE [outcome |-> "returned",
          html |-> Flatten([i \in 1..Len(file.value) |-> ProjectBlock(file.value[i])])]

---------------------------------------------------------------------------
(* SpecProjects: generate_projects_html on one records file *)

MaxProjects == 2

LiveDemoValues == {Absent, JsonNull, "", "https://demo"}
ProjectItems ==
    [isObject : {TRUE}, title : {Absent, "Site"}, image : {Absent}, description : {<<"text">>},
     tags : {<<Absent>>, <<"py">>}, sourceCodeUrl : {Absent, "https://src"},
     liveDemoUrl : LiveDemoValues]
    \cup [isObject : {FALSE}, title : {Absent}, image : {Absent}, description : {<<Absent>>},
          tags : {<<Absent>>}, sourceCodeUrl : {Absent}, liveDemoUrl : {Absent}]
ProjectsFiles ==
    {[kind |-> k, value |-> <<>>] : k \in {Absent, Invalid, "object", "number"}}
    \cup {[kind |-> "array", value |-> v] : v \in SeqsUpTo(ProjectItems, MaxProjects)}

InitProjects ==
    /\ projects \in ProjectsFiles
    /\ projects_html = <<>>
    /\ outcome = "none"
    /\ index = NoFile
    /\ content_to_inject = <<>> /\ placeholder = None /\ hist = <<>>
    /\ PipelineOff /\ ExtractOff /\ BlogOff

\* One call generate_projects_html('projects.json').
GenerateProjects ==
    /\ outcome = "none"
    /\ LET r == GenerateProjectsHtml(projects)
       IN  projects_html' = r.html /\ outcome' = r.outcome
    /\ UNCHANGED <<projects, index, content_to_inject, placeholder, hist>>
    /\ UNCHANGED <<pipelineVars, extractVars, blogVars>>

NextProjects == GenerateProjects
SpecProjects == InitProjects /\ [][NextProjects]_vars

\* The fragment cut into its blocks: a block starts at each CardOpen's newline.
RECURSIVE Blocks(_)
Blocks(frag) ==
    IF frag = <<>> THEN <<>>
    ELSE LET next == FirstAt(frag, CardOpen, 3)
         IN  IF next = 0 THEN <<frag>>
             ELSE <<SubSeq(frag, 1, next - 2)>> \o Blocks(SubSeq(frag, next - 1, Len(frag)))

Generated == outcome = "returned" /\ projects.kind = "array"

\* C6 as stated: a record without the liveDemoUrl field has no "Live Demo"
\* link in its block, a record with the field has exactly one.
C6_LinkIffFieldPresent ==
    Generated =>
        /\ Len(Blocks(projects_html)) = Len(projects.value)
        /\ \A i \in 1..Len(projects.value) :
              Count(Blocks(projects_html)[i], LiveDemoLink)
                  = IF projects.value[i].liveDemoUrl = Absent THEN 0 ELSE 1

\* C6 as amended: a record whose liveDemoUrl is missing, null or the empty
\* string has no "Live Demo" link in its block, any other record exactly one.
C6_LinkIffUrlNonEmpty ==
    Generated =>
        /\ Len(Blocks(projects_html)) = Len(projects.value)
        /\ \A i \in 1..Len(projects.value) :
              Count(Blocks(projects_html)[i], LiveDemoLink)
                  = IF projects.value[i].liveDemoUrl \in {Absent, JsonNull, ""} THEN 0 ELSE 1

\* C6's case: a fragment generated from a record with an empty liveDemoUrl
\* and a record with a URL.
C6_Witness ==
    /\ Generated
    /\ \E i, j \in 1..Len(projects.value) :
          projects.value[i].liveDemoUrl = "" /\ projects.value[j].liveDemoUrl = "https://demo"

---------------------------------------------------------------------------
(* extract_post_details *)

\* A file of blog/ is [name, readable, title, para, mtime]: title is group 1
\* of the <title> search (Absent: no match), para the tokens of group 1 of the
\* blog-content search (NoPara: no match), mtime its modification time in
\* ticks of half a microsecond.
NoPara == <<"NOPARA">>
DescLimit == 150

Whitespace == {" ", Newline}
InlineTags == {"<b>"}

\* len() of a text whose tokens are characters and whole inline tags.
CharLen(s) == Len(s) + 2 * Cardinality({i \in 1..Len(s) : s[i] \in InlineTags})

\* str.strip()
Strip(s) ==
    LET keep == {i \in 1..Len(s) : s[i] \notin Whitespace}
    IN  IF keep = {} THEN <<>>
        ELSE SubSeq(s, CHOOSE i \in keep : \A k \in keep : i <= k,
                       CHOOSE j \in keep : \A k \in keep : k <= j)

\* The end of the match of <[^<]+?> that starts at the "<" at i: the first
\* ">" at i + 2 or later with no "<" (and no tag) in between, or 0.
TagEnd(s, i) ==
    LET ends == {j \in (i + 2)..Len(s) :
                    /\ s[j] = ">"
                    /\ \A k \in (i + 1)..(j - 1) : s[k] # "<" /\ s[k] \notin InlineTags}
    IN  IF ends = {} THEN 0 ELSE CHOOSE j \in ends : \A k \in ends : j <= k

\* re.sub('<[^<]+?>', '', s), from position i on.
RECURSIVE StripTagsFrom(_, _)
StripTagsFrom(s, i) ==
    IF i > Len(s) THEN <<>>
    ELSE IF s[i] \in InlineTags THEN StripTagsFrom(s, i + 1)
    ELSE IF s[i] = "<" /\ TagEnd(s, i) # 0 THEN StripTagsFrom(s, TagEnd(s, i) + 1)
    ELSE LET stop == {j \in (i + 1)..Len(s) : s[j] = "<" \/ s[j] \in InlineTags}
             next == IF stop = {} THEN Len(s) + 1 ELSE CHOOSE j \in stop : \A k \in stop : j <= k
         IN  SubSeq(s, i, next - 1) \o StripTagsFrom(s, next)

StripTags(s) == StripTagsFrom(s, 1)

\* A truncation that keeps one character too many.
TruncateOffByOne(description) ==
    IF Len(description) > DescLimit
    THEN Strip(SubSeq(description, 1, DescLimit + 1)) ELSE description

\* lines 151-152
Truncate(description) ==
    IF Len(description) > DescLimit
    THEN Strip(SubSeq(description, 1, DescLimit)) ELSE description

\* lines 148-152
Description(para) ==
    Truncate(StripTags(IF para = NoPara THEN <<"Click to read more">> ELSE Strip(para)))

\* The timezone a process runs in: UTC, or a zone whose clocks are foldBack
\* microseconds ahead until the instant foldAt and are then set back.
Timezones ==
    {[name |-> "UTC", foldAt |-> 0, foldBack |-> 0],
     [name |-> "America/New_York", foldAt |-> 2, foldBack |-> 2]}

\* datetime.fromtimestamp(t): t rounded half-to-even to whole microseconds,
\* as naive local time.
FromTimestamp(zone, t) ==
    LET q == t \div 2
        micro == IF t % 2 = 0 \/ q % 2 = 0 THEN q ELSE q + 1
    IN  micro + (IF micro < zone.foldAt THEN zone.foldBack ELSE 0)

\* date_obj.strftime("%B %d, %Y"): the calendar day, a day being 4 microseconds here.
DateStr(date_obj) == "day " \o ToString(date_obj \div 4)

NoDetails ==
    [ok |-> FALSE, title |-> "", description |-> <<>>, path |-> "", date_obj |-> 0,
     date_str |-> ""]

\* extract_post_details: None (ok FALSE) when reading the file raises.
ExtractPostDetails(file, zone) ==
    IF ~file.readable THEN NoDetails
    ELSE [ok |-> TRUE,
          title |-> IF file.title = Absent THEN "Untitled" ELSE file.title,
          description |-> Description(file.para),
          path |-> "blog/" \o file.name,
          date_obj |-> FromTimestamp(zone, file.mtime),
          date_str |-> DateStr(FromTimestamp(zone, file.mtime))]

---------------------------------------------------------------------------
(* SpecExtract: extract_post_details on one page *)

MaxHead == 2
MaxTail == 2
MaxSlack == 3

HeadChars == {"a", " ", "<b>"}
TailChars == {"a", " ", "<b>", "<", ">"}
Fill(k) == [i \in 1..k |-> "a"]
Paragraphs ==
    {h \o Fill(k) \o t : h \in SeqsUpTo(HeadChars, MaxHead),
                         k \in (DescLimit - MaxSlack)..DescLimit,
                         t \in SeqsUpTo(TailChars, MaxTail)}
    \cup SeqsUpTo(TailChars, MaxTail) \cup {NoPara}

InitExtract ==
    /\ page \in [name : {"post.html"}, readable : BOOLEAN, title : {"Hello World"},
                 para : Paragraphs, mtime : {0}]
    /\ details = <<>>
    /\ outcome = "none"
    /\ tz = "UTC"
    /\ index = NoFile /\ projects = NoProjects
    /\ content_to_inject = <<>> /\ placeholder = None /\ hist = <<>>
    /\ listing = <<>> /\ posts_html = <<>>
    /\ PipelineOff /\ ProjectOff

\* One call extract_post_details(html_path).
ExtractDetails ==
    /\ outcome = "none"
    /\ details' = ExtractPostDetails(page, CHOOSE z \in Timezones : z.name = tz)
    /\ outcome' = "returned"
    /\ UNCHANGED <<page, tz, index, projects, content_to_inject, placeholder, hist,
                   listing, posts_html>>
    /\ UNCHANGED <<pipelineVars, projectVars>>

NextExtract == ExtractDetails
SpecExtract == InitExtract /\ [][NextExtract]_vars

\* The page's paragraph exceeds 150 characters and its details were extracted.
LongParagraph ==
    /\ outcome = "returned" /\ details.ok
    /\ page.para # NoPara /\ CharLen(page.para) > DescLimit
TagStripped == StripTags(Strip(page.para))

\* C7 as stated: a paragraph of more than 150 characters gives a description
\* of exactly 150 characters of the tag-stripped text.
C7_ExactlyLimitChars ==
    LongParagraph =>
        /\ Len(details.description) = DescLimit
        /\ IsInfix(details.description, TagStripped)

\* d is text with the whitespace at both its ends removed.
IsTrimmed(d, text) ==
    /\ d # <<>> => (d[1] \notin Whitespace /\ d[Len(d)] \notin Whitespace)
    /\ \E i \in 1..(Len(text) - Len(d) + 1) :
          /\ d = SubSeq(text, i, i + Len(d) - 1)
          /\ \A k \in 1..Len(text) : (k < i \/ k >= i + Len(d)) => text[k] \in Whitespace

\* C7 as amended: the description is at most 150 characters of the
\* tag-stripped text; it is the whole tag-stripped text when that has at most
\* 150 characters, and otherwise its first 150 characters with the whitespace
\* around them trimmed: exactly 150 characters when their first and last are
\* not whitespace.
C7_AtMostLimitChars ==
    LongParagraph =>
        /\ Len(details.description) <= DescLimit
        /\ IsInfix(details.description, TagStripped)
        /\ Len(TagStripped) <= DescLimit => details.description = TagStripped
        /\ Len(TagStripped) > DescLimit =>
              IsTrimmed(details.description, SubSeq(TagStripped, 1, DescLimit))
        /\ (/\ Len(TagStripped) > DescLimit
            /\ TagStripped[1] \notin Whitespace
            /\ TagStripped[DescLimit] \notin Whitespace)
           => details.description = SubSeq(TagStripped, 1, DescLimit)

\* C7's case: the tag-stripped text exceeds 150 characters and the trimmed
\* description is shorter than 150.
C7_Witness ==
    /\ LongParagraph
    /\ Len(TagStripped) > DescLimit
    /\ Len(details.description) < DescLimit

---------------------------------------------------------------------------
(* generate_blog_html *)

EntryOpen == "<div class=\"blog-post-entry\">"
ReadMoreLink == "<span>Read More</span>"

EndsWithHtml(name) == name \in {"post.html", ".md.html", "old.html"}

\* lines 114-119: the details of the .html files, in os.listdir's order.
RECURSIVE BlogPosts(_, _)
BlogPosts(files, zone) ==
    IF files = <<>> THEN <<>>
    ELSE LET d == ExtractPostDetails(Head(files), zone)
         IN  (IF EndsWithHtml(Head(files).name) /\ d.ok THEN <<d>> ELSE <<>>)
             \o BlogPosts(Tail(files), zone)

\* list.sort(key=date_obj, reverse=True): stable, so posts with equal keys
\* keep the order they had.
RECURSIVE SortByDateDesc(_)
SortByDateDesc(posts) ==
    IF posts = <<>> THEN <<>>
    ELSE LET rest == SortByDateDesc(SubSeq(posts, 1, Len(posts) - 1))
             last == posts[Len(posts)]
             n == Cardinality({i \in 1..Len(rest) : rest[i].date_obj >= last.date_obj})
         IN  SubSeq(rest, 1, n) \o <<last>> \o SubSeq(rest, n + 1, Len(rest))

\* The entry lines 125-136 add for one post.
PostEntry(post) ==
    <<Newline, EntryOpen, post.date_str, post.title>> \o post.description
    \o <<"...", "<a href=", post.path, ReadMoreLink, "</div>">>

GenerateBlogHtml(files, zone) ==
    LET sorted == SortByDateDesc(BlogPosts(files, zone))
    IN  Flatten([i \in 1..Len(sorted) |-> PostEntry(sorted[i])])

---------------------------------------------------------------------------
(* SpecBlog: generate_blog_html on one directory *)

MaxFiles == 3
MaxMtime == 5

BlogFileNames == {"post.html", "old.html", "notes.txt"}
BlogFiles ==
    [name : BlogFileNames, readable : BOOLEAN, title : {"Hello World"},
     para : {<<"a">>}, mtime : 0..MaxMtime]
Listings ==
    {l \in SeqsUpTo(BlogFiles, MaxFiles) :
        \A i, j \in 1..Len(l) : i # j => l[i].name # l[j].name}

InitBlog ==
    /\ listing \in Listings
    /\ tz \in {z.name : z \in Timezones}
    /\ posts_html = <<>>
    /\ outcome = "none"
    /\ page = <<>> /\ details = <<>>
    /\ index = NoFile /\ projects = NoProjects
    /\ content_to_inject = <<>> /\ placeholder = None /\ hist = <<>>
    /\ PipelineOff /\ ProjectOff

\* One call generate_blog_html('blog').
GenerateBlog ==
    /\ outcome = "none"
    /\ posts_html' = GenerateBlogHtml(listing, CHOOSE z \in Timezones : z.name = tz)
    /\ outcome' = "returned"
    /\ UNCHANGED <<listing, tz, page, details, index, projects, content_to_inject,
                   placeholder, hist>>
    /\ UNCHANGED <<pipelineVars, projectVars>>

NextBlog == GenerateBlog
SpecBlog == InitBlog /\ [][NextBlog]_vars

\* The paths of the fragment's entries, in the fragment's order.
EntryPaths(frag) ==
    LET at == {i \in 1..Len(frag) : frag[i] = ReadMoreLink}
        nth(k) == CHOOSE i \in at : Cardinality({j \in at : j < i}) = k - 1
    IN  [k \in 1..Cardinality(at) |-> frag[nth(k) - 1]]

\* The files of the listing whose metadata extraction succeeds.
Extractable == {i \in 1..Len(listing) : EndsWithHtml(listing[i].name) /\ listing[i].readable}

\* C8: the fragment has exactly one entry for each page whose extraction
\* succeeds, none for any other, and a page modified later is listed before a
\* page modified earlier.
C8_OneEntryEachNewestFirst ==
    outcome = "returned" =>
        LET paths == EntryPaths(posts_html)
            pos(i) == CHOOSE k \in 1..Len(paths) : paths[k] = "blog/" \o listing[i].name
        IN  /\ Len(paths) = Cardinality(Extractable)
            /\ \A i \in Extractable : \E k \in 1..Len(paths) : paths[k] = "blog/" \o listing[i].name
            /\ \A i, j \in Extractable :
                  listing[i].mtime > listing[j].mtime => pos(i) < pos(j)

---------------------------------------------------------------------------
(* create_blog_post *)

\* A file of blogs_md/ is [state, heading, text]: state "file", "absent",
\* "unreadable" (open raises PermissionError or IsADirectoryError) or
\* "dangling" (a listed symlink whose target is gone: FileNotFoundError);
\* heading is the text of its first "# " line (Absent: none), text the
\* characters of its first paragraph.
NoSource == [state |-> "absent", heading |-> Absent, text |-> <<>>]
UnreadableSource == [state |-> "unreadable", heading |-> Absent, text |-> <<>>]
DanglingSource == [state |-> "dangling", heading |-> Absent, text |-> <<>>]
Md1 == [state |-> "file", heading |-> "Hello World", text |-> <<"a">>]
Md2 == [state |-> "file", heading |-> Absent, text |-> <<"a", " ", "<b>", "a">>]

SourceNames == {"post.md", ".md.md", ".md", "notes.txt"}
PageNames == {"post.html", ".md.html"}

\* filename.endswith('.md')
EndsWithMd(name) == name \in {"post.md", ".md.md", ".md"}

\* os.path.splitext(os.path.basename(md_file_path))[0] + '.html': splitext
\* takes a leading dot for part of the root, so '.md' has no extension.
OutputFilename(name) ==
    CASE name = "post.md" -> "post.html"
      [] name = ".md.md" -> ".md.html"
      [] name = ".md" -> ".md.html"
      [] OTHER -> "notes.html"

\* A page of blog/ is a file as extract_post_details reads it, with exists
\* (whether there is a file of that name at all) and tpl, the template it was
\* rendered with.
NoPage ==
    [exists |-> FALSE, name |-> "", readable |-> FALSE, tpl |-> "", title |-> Absent,
     para |-> NoPara, mtime |-> 0]

\* Templates: "FULL" holds both placeholder tokens, the title's inside
\* <title>.. | hxr3tic</title> and the content's inside the blog-content
\* container; "BARE" holds neither.
TemplateFiles == {"FULL", "BARE"}

\* lines 35-36
Title(md) == IF md.heading = Absent THEN "Untitled Post" ELSE md.heading

\* lines 38-44: final_html, written at the time now.
Render(md, tpl, name, now) ==
    [exists |-> TRUE, name |-> name, readable |-> TRUE, tpl |-> tpl,
     title |-> IF tpl = "FULL" THEN Title(md) ELSE Absent,
     para |-> IF tpl = "FULL" THEN md.text ELSE NoPara,
     mtime |-> now]

\* An existence test that never finds the page.
NeverExists(dir, output_filename) == FALSE

\* os.path.exists(output_path), line 17
PathExists(dir, output_filename) == dir[output_filename].exists

\* create_blog_post: blog/ afterwards and how the call ended.
CreateBlogPost(dir, md, name, tpl, writable, now) ==
    LET out == OutputFilename(name) IN
    IF PathExists(dir, out) THEN [pages |-> dir, outcome |-> "returned"]
    ELSE IF md.state = "dangling" THEN [pages |-> dir, outcome |-> "returned"]
    ELSE IF md.state = "unreadable" THEN [pages |-> dir, outcome |-> "raised"]
    ELSE IF tpl = Absent THEN [pages |-> dir, outcome |-> "returned"]
    ELSE IF tpl = Unreadable THEN [pages |-> dir, outcome |-> "raised"]
    ELSE IF ~writable THEN [pages |-> dir, outcome |-> "raised"]
    ELSE [pages |-> [dir EXCEPT ![out] = Render(md, tpl, out, now)], outcome |-> "returned"]

---------------------------------------------------------------------------
(* Spec: runs of main, and changes to its input files between runs *)

MaxRuns == 2
MaxEdits == 2

BetweenRuns == pc \in {"idle", "done", "aborted"}

ProjectItem(description, liveDemoUrl) ==
    [isObject |-> TRUE, title |-> "Site", image |-> Absent, description |-> description,
     tags |-> <<"py">>, sourceCodeUrl |-> Absent, liveDemoUrl |-> liveDemoUrl]
NotAnObject ==
    [isObject |-> FALSE, title |-> Absent, image |-> Absent, description |-> <<Absent>>,
     tags |-> <<Absent>>, sourceCodeUrl |-> Absent, liveDemoUrl |-> Absent]
MainProjects ==
    {[kind |-> k, value |-> <<>>] : k \in {Absent, Invalid, "number", "array"}}
    \cup {[kind |-> "array", value |-> <<i>>] :
            i \in {ProjectItem(<<"text">>, "https://demo"),
                   ProjectItem(<<"C", ":", Backslash, "p">>, Absent),
                   ProjectItem(<<PlaceholderEnd("PROJECTS_PLACEHOLDER")>>, Absent),
                   NotAnObject}}

IndexFiles ==
    {NoFile,
     <<".", PlaceholderStart("PROJECTS_PLACEHOLDER"), PlaceholderEnd("PROJECTS_PLACEHOLDER"),
       ".", PlaceholderStart("BLOG_POSTS_PLACEHOLDER"), ".",
       PlaceholderEnd("BLOG_POSTS_PLACEHOLDER")>>,
     <<PlaceholderStart("PROJECTS_PLACEHOLDER"), ".", PlaceholderEnd("PROJECTS_PLACEHOLDER")>>}

Init ==
    /\ pc = "idle" /\ runs = 0 /\ edits = 0 /\ todo = {}
    /\ srcDir = TRUE
    /\ sources = [n \in SourceNames |-> IF n = ".md" THEN NoSource ELSE Md1]
    /\ template = "FULL"
    /\ outDir = FALSE /\ outWritable = TRUE
    /\ pages = [n \in PageNames |-> NoPage]
    /\ projects = [kind |-> "array", value |-> <<ProjectItem(<<"text">>, "https://demo")>>]
    /\ index \in IndexFiles
    /\ indexWritable = TRUE
    /\ calls = <<>>
    /\ InjectOff /\ ProjectOff /\ ExtractOff /\ BlogOff

harnessVars == <<injectVars, projectVars, extractVars, blogVars>>
inputFiles == <<srcDir, sources, template, outWritable, projects, indexWritable>>

\* main up to the loop of step 1: os.makedirs and os.listdir.
StartMain ==
    /\ BetweenRuns /\ runs < MaxRuns
    /\ runs' = runs + 1
    /\ calls' = <<>>
    /\ IF srcDir
       THEN /\ outDir' = TRUE
            /\ todo' = {n \in SourceNames : sources[n].state # "absent"}
       ELSE /\ outDir' = outDir
            /\ todo' = {}
    /\ pc' = IF todo' = {} THEN "step2" ELSE "step1"
    /\ UNCHANGED <<edits, pages, index, inputFiles, harnessVars>>

\* One iteration of the loop of lines 184-187, os.listdir's order being any.
ConvertPost ==
    /\ pc = "step1"
    /\ \E filename \in todo :
          LET r == IF EndsWithMd(filename)
                   THEN CreateBlogPost(pages, sources[filename], filename, template,
                                       outWritable, runs)
                   ELSE [pages |-> pages, outcome |-> "returned"]
          IN  /\ pages' = r.pages
              /\ todo' = IF r.outcome = "raised" THEN {} ELSE todo \ {filename}
              /\ pc' = IF r.outcome = "raised" THEN "aborted"
                       ELSE IF todo' = {} THEN "step2" ELSE "step1"
    /\ UNCHANGED <<runs, edits, outDir, index, calls, inputFiles, harnessVars>>

\* A guard that lets every fragment through.
InjectAlways(fragment) == TRUE

\* "if projects_html_content:" and "if blog_html_content:", lines 193 and 199
ShouldInject(fragment) == fragment # <<>>

\* What a step of main does with the fragment it generated.
InjectStep(p, fragment, after) ==
    IF ShouldInject(fragment)
    THEN LET u == UpdateIndexHtml(index, indexWritable, p, fragment)
         IN  /\ index' = u.file
             /\ calls' = Append(calls, [placeholder |-> p, fragment |-> fragment])
             /\ pc' = IF u.outcome = "raised" THEN "aborted" ELSE after
    ELSE /\ UNCHANGED <<index, calls>>
         /\ pc' = after

\* Step 2, lines 192-194.
ProjectsStep ==
    /\ pc = "step2"
    /\ LET g == GenerateProjectsHtml(projects)
       IN  IF g.outcome = "raised"
           THEN pc' = "aborted" /\ UNCHANGED <<index, calls>>
           ELSE InjectStep("PROJECTS_PLACEHOLDER", g.html, "step3")
    /\ UNCHANGED <<runs, edits, todo, outDir, pages, inputFiles, harnessVars>>

\* The orders os.listdir(blog_dir) may list the files of blog/ in.
BlogListings ==
    LET there == {n \in PageNames : pages[n].exists}
    IN  {l \in [1..Cardinality(there) -> there] : \A i, j \in DOMAIN l : i # j => l[i] # l[j]}

\* Step 3 and the last line, lines 197-202.
BlogStep ==
    /\ pc = "step3"
    /\ IF outDir
       THEN \E l \in BlogListings : \E zone \in Timezones :
               InjectStep("BLOG_POSTS_PLACEHOLDER",
                          GenerateBlogHtml([i \in DOMAIN l |-> pages[l[i]]], zone), "done")
       ELSE pc' = "done" /\ UNCHANGED <<index, calls>>
    /\ UNCHANGED <<runs, edits, todo, outDir, pages, inputFiles, harnessVars>>

\* Between runs: a source file is written, removed or made unreadable.
EditSource ==
    /\ BetweenRuns /\ edits < MaxEdits
    /\ \E n \in {"post.md", ".md"} :
       \E v \in {NoSource, UnreadableSource, DanglingSource, Md1, Md2} :
          /\ v # sources[n]
          /\ sources' = [sources EXCEPT ![n] = v]
    /\ edits' = edits + 1
    /\ UNCHANGED <<pc, runs, todo, srcDir, template, outDir, outWritable, pages, projects,
                   index, indexWritable, calls, harnessVars>>

\* Between runs: the template is replaced, removed or made unreadable.
EditTemplate ==
    /\ BetweenRuns /\ edits < MaxEdits
    /\ \E t \in {Absent, Unreadable} \cup TemplateFiles :
          t # template /\ template' = t
    /\ edits' = edits + 1
    /\ UNCHANGED <<pc, runs, todo, srcDir, sources, outDir, outWritable, pages, projects,
                   index, indexWritable, calls, harnessVars>>

\* Between runs: projects.json is rewritten or removed.
EditProjects ==
    /\ BetweenRuns /\ edits < MaxEdits
    /\ \E f \in MainProjects : f # projects /\ projects' = f
    /\ edits' = edits + 1
    /\ UNCHANGED <<pc, runs, todo, srcDir, sources, template, outDir, outWritable, pages,
                   index, indexWritable, calls, harnessVars>>

\* Between runs: blog/ or index.html is made read-only, or blogs_md/ removed.
ChangeAccess ==
    /\ BetweenRuns /\ edits < MaxEdits
    /\ \/ outWritable' = ~outWritable /\ UNCHANGED <<indexWritable, srcDir>>
       \/ indexWritable' = ~indexWritable /\ UNCHANGED <<outWritable, srcDir>>
       \/ srcDir /\ srcDir' = FALSE /\ UNCHANGED <<outWritable, indexWritable>>
    /\ edits' = edits + 1
    /\ UNCHANGED <<pc, runs, todo, sources, template, outDir, pages, projects, index,
                   calls, harnessVars>>

Next ==
    \/ StartMain \/ ConvertPost \/ ProjectsStep \/ BlogStep
    \/ EditSource \/ EditTemplate \/ EditProjects \/ ChangeAccess

Spec == Init /\ [][Next]_vars

\* C1: once a page exists at an output path, no step of any later run
\* changes it, whatever happened to the Markdown source or the template.
C1_ExistingPageNeverChanges ==
    [][\A n \in PageNames : pages[n].exists => pages'[n] = pages[n]]_vars

\* C1's case: step 1 of a later run has gone through post.md, whose page was
\* rendered in an earlier run from a source with another title.
C1_Witness ==
    /\ pc = "step2" /\ runs >= 2
    /\ sources["post.md"].state = "file"
    /\ pages["post.html"].exists /\ pages["post.html"].mtime < runs
    /\ pages["post.html"].tpl = "FULL"
    /\ pages["post.html"].title # Title(sources["post.md"])

\* C5: no run of main is aborted by an error.
C5_EveryRunReachesAllDone == pc # "aborted"

\* The projects fragment is empty: no data file, an undecodable one, or [].
ProjectsFragmentEmpty ==
    \/ projects.kind \in {Absent, Invalid}
    \/ projects.kind = "array" /\ projects.value = <<>>
\* The blog fragment is empty: no blog/, or no page whose metadata can be read.
BlogFragmentEmpty ==
    ~outDir \/ \A n \in PageNames : ~(pages[n].exists /\ pages[n].readable)

\* C9: update_index_html is only ever called with a non-empty fragment, and
\* the step of main whose fragment is empty leaves index.html as it is.
C9_EmptyFragmentLeavesIndex ==
    [][/\ (pc = "step2" /\ ProjectsFragmentEmpty) => (index' = index /\ calls' = calls)
       /\ (pc = "step3" /\ BlogFragmentEmpty) => (index' = index /\ calls' = calls)
       /\ \A k \in 1..Len(calls') : calls'[k].fragment # <<>>]_vars

\* C9's case: step 2 of a later run found no projects and went on without a
\* call, and the region still holds the cards an earlier run injected.
C9_Witness ==
    /\ pc = "step3" /\ runs >= 2
    /\ ProjectsFragmentEmpty
    /\ calls = <<>>
    /\ Count(index, CardOpen) > 0

=============================================================================
